---- MODULE Spec2Model ----
(***************************************************************************)
(* Model of the HMM model selectors (my_model_selectors.py) and of the     *)
(* recognizer (my_recognizer.py).                                          *)
(*                                                                         *)
(* The HMM library is an external collaborator: whether a fit succeeds     *)
(* and what a score call returns are inputs.  A fit is deterministic in    *)
(* (X, lengths, n_components, random_state), so its outcome is remembered  *)
(* in fitMemo; a score is a finite number or an exception.                 *)
(* Floating point values are modelled as exact rationals plus nan, inf     *)
(* and -inf, with the comparison rules of IEEE floats.                     *)
(***************************************************************************)
EXTENDS Integers, Sequences, FiniteSets, TLC

\* ---------------------------------------------------------------- bounds
MaxSeqs == 3
MaxFrames == 2
MaxOthers == 1
MaxN == 3
MaxScore == 2
MaxWords == 2
MaxItems == 2

\* ------------------------------------------------------- program constants
DefaultNConstant == 3
DefaultMinN == 2
DefaultRandomState == 14
\* n_splits of KFold() called without arguments (3 in the scikit-learn
\* releases the project was written against)
NSplits == 3

Kinds == {"Constant", "BIC", "DIC", "CV"}
NConstants == {1, DefaultNConstant}
ThisWord == "W0"

\* ------------------------------------------------------------ float values
Num(a, b) == [t |-> "num", num |-> a, den |-> b]
NaN == [t |-> "nan"]
Inf == [t |-> "inf"]
NegInf == [t |-> "-inf"]
Raise == [t |-> "raise"]
None == [t |-> "None"]

\* a <= b in place of a < b
Lt_orEqual(a, b) ==
  IF a.t = "nan" \/ b.t = "nan" THEN FALSE
  ELSE IF a.t = "num" /\ b.t = "num" THEN a.num * b.den <= b.num * a.den
  ELSE a.t = b.t \/ a.t = "-inf" \/ b.t = "inf"

\* a < b on floats: false whenever either side is nan
Lt(a, b) ==
  IF a.t = "nan" \/ b.t = "nan" THEN FALSE
  ELSE IF a.t = "inf" \/ b.t = "-inf" THEN FALSE
  ELSE IF a.t = "-inf" \/ b.t = "inf" THEN TRUE
  ELSE a.num * b.den < b.num * a.den

Gt(a, b) == Lt(b, a)

\* a - b on floats (finite operands or nan)
Sub(a, b) ==
  IF a.t = "nan" \/ b.t = "nan" THEN NaN
  ELSE Num(a.num * b.den - b.num * a.den, a.den * b.den)

RECURSIVE SumNum(_)
SumNum(s) == IF s = <<>> THEN 0 ELSE s[1].num + SumNum(Tail(s))

\* np.mean over a list of finite scores; nan (with a warning) for the empty list
Mean(s) == IF Len(s) = 0 THEN NaN ELSE Num(SumNum(s), Len(s))

\* np.log, in hundredths
Ln100(k) ==
  CASE k = 1 -> 0 [] k = 2 -> 69 [] k = 3 -> 110 [] k = 4 -> 139
    [] k = 5 -> 161 [] k = 6 -> 179 [] k = 7 -> 195 [] k = 8 -> 208
    [] k = 9 -> 220 [] k = 10 -> 230 [] k = 11 -> 240 [] k = 12 -> 248
    [] OTHER -> 250 + k

\* what model.score of the library can produce for a fitted model
ScoreOutcomes == {Num(0 - v, 1) : v \in 1..MaxScore} \cup {Raise}

\* --------------------------------------------------------------- the data
\* the lengths of k sequences: they cycle through 1..MaxFrames from offset f
CycleLens(k, f) == [i \in 1..k |-> ((i + f) % MaxFrames) + 1]

\* sequence i of the word: lens[i] frames of two features each
MakeSequences(lens) ==
  [i \in 1..Len(lens) |-> [t \in 1..lens[i] |-> <<i, t>>]]

RECURSIVE Flatten(_)
Flatten(ss) == IF ss = <<>> THEN <<>> ELSE ss[1] \o Flatten(Tail(ss))

combine_sequences(idx, seqs) ==
  [X |-> Flatten([k \in 1..Len(idx) |-> seqs[idx[k]]]),
   lengths |-> [k \in 1..Len(idx) |-> Len(seqs[idx[k]])]]

Iota(n) == [i \in 1..n |-> i]

\* the entry of all_word_Xlengths for a word's sequences
FullIndex(seqs) == combine_sequences(Iota(Len(seqs)), seqs)

OtherWord(k) == [word |-> "W" \o ToString(k), X |-> <<<<100 + k, 1>>>>, lengths |-> <<1>>]

MakeHWords(seqs, nOthers) ==
  <<[word |-> ThisWord, X |-> FullIndex(seqs).X, lengths |-> FullIndex(seqs).lengths]>>
    \o [k \in 1..nOthers |-> OtherWord(k)]

\* ------------------------------------------------------------------ KFold
\* sizes and starts of the k contiguous folds of n samples (no shuffling):
\* the first n % k folds hold one sample more
FoldSize(n, k, f) == (n \div k) + (IF f <= n % k THEN 1 ELSE 0)

RECURSIVE FoldStart(_, _, _)
FoldStart(n, k, f) ==
  IF f = 1 THEN 1 ELSE FoldStart(n, k, f - 1) + FoldSize(n, k, f - 1)

Folds(n, k) ==
  [f \in 1..k |->
    LET lo == FoldStart(n, k, f)
        hi == lo + FoldSize(n, k, f) - 1
        InTest(i) == i >= lo /\ i <= hi
        InTrain(i) == ~InTest(i)
    IN [train |-> SelectSeq(Iota(n), InTrain),
        test |-> SelectSeq(Iota(n), InTest)]]

\* a split that uses fewer folds when there are too few samples
KFoldSplit_clamp(n) ==
  [t |-> "folds", folds |-> Folds(n, IF n < NSplits THEN n ELSE NSplits)]

\* KFold().split(sequences): fold f as (train indices, test indices), or an
\* exception when there are fewer samples than splits
KFoldSplit(n) ==
  IF n < NSplits THEN Raise
  ELSE [t |-> "folds", folds |-> Folds(n, NSplits)]

\* ------------------------------------------------------------------ state
VARIABLES
  kind,              \* which ModelSelector subclass the object is
  sequences,         \* self.sequences
  X, lengths,        \* self.X, self.lengths
  hwords,            \* self.hwords, in dict order
  n_constant, min_n_components, max_n_components, random_state,
  pc,                \* position of the one select() call: idle (not yet
                     \* called), loop, fold, except, done (it has ended)
  n_comp, best_score, best_n,   \* locals of select(); best_n = 0 is unbound
  fold, scores,      \* CV_score: next fold to run and the scores list
  result,            \* what the last select() returned
  outcome,           \* "none", "returned" or "raised" for the last select()
  via,               \* which return statement produced result
  lastFit,           \* arguments of the last fit call
  fitMemo,           \* outcomes of the fits made so far
  hist,              \* per candidate, what happened in the current search
  models, test_set,  \* arguments of recognize()
  rpc, item, widx,   \* position inside recognize()
  row_best_score, best_guess, probdict,
  probabilities, guesses,
  rawrow, rawlog     \* history: what each model.score call did, per row

selVars == <<kind, sequences, X, lengths, hwords, n_constant, min_n_components,
             max_n_components, random_state, pc, n_comp, best_score, best_n,
             fold, scores, result, outcome, via, lastFit, fitMemo, hist>>
recVars == <<models, test_set, rpc, item, widx, row_best_score, best_guess,
             probdict, probabilities, guesses, rawrow, rawlog>>
vars == <<selVars, recVars>>

ctxVars == <<kind, sequences, hwords, n_constant, min_n_components,
             max_n_components, random_state>>

NoFit == [X |-> <<>>, lengths |-> <<>>, n |-> 0]
Untried == [t |-> "untried"]

\* ModelSelector.__init__
InitSelector ==
  /\ kind \in Kinds
  /\ \E k \in 1..MaxSeqs : \E f \in 1..MaxFrames :
       \E nOthers \in 0..MaxOthers :
         LET seqs == MakeSequences(CycleLens(k, f))
         IN /\ sequences = seqs
            /\ X = FullIndex(seqs).X
            /\ lengths = FullIndex(seqs).lengths
            /\ hwords = MakeHWords(seqs, nOthers)
  /\ n_constant \in NConstants
  /\ min_n_components = DefaultMinN
  /\ max_n_components \in 1..MaxN
  /\ random_state = DefaultRandomState
  /\ pc = "idle"
  /\ n_comp = 0 /\ best_score = NaN /\ best_n = 0
  /\ fold = 0 /\ scores = <<>>
  /\ result = None /\ outcome = "none" /\ via = "none"
  /\ lastFit = NoFit
  /\ fitMemo = {}
  /\ hist = [n \in min_n_components..max_n_components |-> Untried]

\* ------------------------------------------------------------ the fitting
\* GaussianHMM(...).fit(self.X, self.lengths): the outcomes still possible
FitOutcomes(x, l, n) ==
  LET known == {m \in fitMemo : m.X = x /\ m.lengths = l /\ m.n = n}
  IN IF known = {} THEN BOOLEAN ELSE {m.ok : m \in known}

Remember(x, l, n, ok) == fitMemo \cup {[X |-> x, lengths |-> l, n |-> n, ok |-> ok]}

\* base_model with the try/except removed
base_model_nocatch(ok, num_states, x, l) ==
  IF ok THEN [t |-> "model", n |-> num_states, X |-> x, lengths |-> l] ELSE Raise

\* ModelSelector.base_model: the fitted model, or None when the fit raises
base_model(ok, num_states, x, l) ==
  IF ok THEN [t |-> "model", n |-> num_states, X |-> x, lengths |-> l] ELSE None

\* model.score(...): AttributeError on None, else what the library gives
Score(model, s) ==
  IF model.t # "model" THEN Raise ELSE s

\* SelectorBIC.BIC_score, given the model base_model returned and the
\* outcome s of model.score; the value is in hundredths
BIC_score(model, s, n, x) ==
  LET logL == Score(model, s)
      n_features == Len(x[1])
      logN == Ln100(Len(x))
      p == n * n + 2 * n * n_features - 1
  IN IF logL.t = "raise" THEN Raise
     ELSE Num(0 - 2 * logL.num * 100 + p * logN, 100)

RECURSIVE AntiScores(_, _, _)
\* the loop over self.hwords.items() of DIC_score: the list loganti, or Raise
AntiScores(hw, model, os) ==
  IF hw = <<>> THEN [t |-> "list", list |-> <<>>]
  ELSE IF hw[1].word = ThisWord THEN AntiScores(Tail(hw), model, os)
  ELSE LET s == Score(model, os[1])
           rest == AntiScores(Tail(hw), model, Tail(os))
       IN IF s.t = "raise" \/ rest.t = "raise" THEN Raise
          ELSE [t |-> "list", list |-> <<s>> \o rest.list]

\* SelectorDIC.DIC_score; os[k] is the outcome of scoring the k-th other word
DIC_score(model, s, os) ==
  LET logL == Score(model, s)
      loganti == AntiScores(hwords, model, os)
  IN IF logL.t = "raise" \/ loganti.t = "raise" THEN Raise
     ELSE Sub(logL, Mean(loganti.list))


\* ------------------------------------------------------------ select()
Candidates == min_n_components..max_n_components

\* SelectorConstant.select
SelectConstant ==
  /\ kind = "Constant"
  /\ pc = "idle"
  /\ \E ok \in FitOutcomes(X, lengths, n_constant) :
       LET m == base_model(ok, n_constant, X, lengths)
       IN /\ fitMemo' = Remember(X, lengths, n_constant, ok)
          /\ lastFit' = [X |-> X, lengths |-> lengths, n |-> n_constant]
          /\ IF m.t = "raise"
               THEN result' = None /\ outcome' = "raised"
               ELSE result' = m /\ outcome' = "returned"
  /\ via' = "constant"
  /\ pc' = "done"
  /\ UNCHANGED <<ctxVars, X, lengths, n_comp, best_score, best_n, fold, scores, hist>>
  /\ UNCHANGED recVars

\* the first lines of SelectorBIC/DIC/CV.select: best_score and the range
SelectEnter ==
  /\ kind \in {"BIC", "DIC", "CV"}
  /\ pc = "idle"
  /\ best_score' = IF kind = "BIC" THEN Inf ELSE NegInf
  /\ n_comp' = min_n_components
  /\ best_n' = 0
  /\ fold' = 0 /\ scores' = <<>>
  /\ hist' = [n \in Candidates |-> Untried]
  /\ result' = None /\ outcome' = "none" /\ via' = "none"
  /\ pc' = "loop"
  /\ UNCHANGED <<ctxVars, X, lengths, lastFit, fitMemo>>
  /\ UNCHANGED recVars

\* the rest of a loop iteration once the score of n_comp is known
Compare(score, better) ==
  IF score.t = "raise"
    THEN /\ pc' = "except"
         /\ UNCHANGED <<best_score, best_n, n_comp>>
    ELSE /\ pc' = "loop"
         /\ n_comp' = n_comp + 1
         /\ IF better
              THEN best_score' = score /\ best_n' = n_comp
              ELSE UNCHANGED <<best_score, best_n>>

Record(model, score) ==
  IF model.t # "model" THEN [t |-> "fitfail"]
  ELSE IF score.t = "raise" THEN [t |-> "scorefail"]
  ELSE [t |-> "ok", score |-> score]

\* one iteration of the loop of SelectorBIC.select
BICIter ==
  /\ kind = "BIC" /\ pc = "loop" /\ n_comp <= max_n_components
  /\ \E ok \in FitOutcomes(X, lengths, n_comp) : \E s \in ScoreOutcomes :
       LET model == base_model(ok, n_comp, X, lengths)
           score == BIC_score(model, s, n_comp, X)
       IN /\ fitMemo' = Remember(X, lengths, n_comp, ok)
          /\ lastFit' = [X |-> X, lengths |-> lengths, n |-> n_comp]
          /\ hist' = [hist EXCEPT ![n_comp] = Record(model, score)]
          /\ Compare(score, score.t # "raise" /\ Lt(score, best_score))
  /\ UNCHANGED <<ctxVars, X, lengths, fold, scores, result, outcome, via>>
  /\ UNCHANGED recVars

\* one iteration of the loop of SelectorDIC.select
DICIter ==
  /\ kind = "DIC" /\ pc = "loop" /\ n_comp <= max_n_components
  /\ \E ok \in FitOutcomes(X, lengths, n_comp) : \E s \in ScoreOutcomes :
     \E os \in [1..(Len(hwords) - 1) -> ScoreOutcomes] :
       LET model == base_model(ok, n_comp, X, lengths)
           score == DIC_score(model, s, os)
       IN /\ fitMemo' = Remember(X, lengths, n_comp, ok)
          /\ lastFit' = [X |-> X, lengths |-> lengths, n |-> n_comp]
          /\ hist' = [hist EXCEPT ![n_comp] = Record(model, score)]
          /\ Compare(score, score.t # "raise" /\ Gt(score, best_score))
  /\ UNCHANGED <<ctxVars, X, lengths, fold, scores, result, outcome, via>>
  /\ UNCHANGED recVars

\* SelectorCV.CV_score up to the first fold: scores = [] and the split
CVSplit ==
  /\ kind = "CV" /\ pc = "loop" /\ n_comp <= max_n_components
  /\ scores' = <<>>
  /\ IF KFoldSplit(Len(sequences)).t = "raise"
       THEN /\ pc' = "except" /\ fold' = 0
            /\ hist' = [hist EXCEPT ![n_comp] = [t |-> "splitfail"]]
       ELSE /\ pc' = "fold" /\ fold' = 1
            /\ UNCHANGED hist
  /\ UNCHANGED <<ctxVars, X, lengths, n_comp, best_score, best_n, result, outcome,
                 via, lastFit, fitMemo>>
  /\ UNCHANGED recVars

\* the body of the fold loop of CV_score, for fold number fold
CVFold ==
  /\ kind = "CV" /\ pc = "fold" /\ fold <= Len(KFoldSplit(Len(sequences)).folds)
  /\ LET f == KFoldSplit(Len(sequences)).folds[fold]
         train == combine_sequences(f.train, sequences)
     IN /\ X' = train.X
        /\ lengths' = train.lengths
        /\ \E ok \in FitOutcomes(train.X, train.lengths, n_comp) : \E s \in ScoreOutcomes :
             LET model == base_model(ok, n_comp, train.X, train.lengths)
                 sc == Score(model, s)
             IN /\ fitMemo' = Remember(train.X, train.lengths, n_comp, ok)
                /\ lastFit' = [X |-> train.X, lengths |-> train.lengths, n |-> n_comp]
                /\ IF sc.t = "raise"
                     THEN /\ pc' = "except"
                          /\ hist' = [hist EXCEPT ![n_comp] = Record(model, sc)]
                          /\ UNCHANGED <<scores, fold>>
                     ELSE /\ pc' = "fold"
                          /\ scores' = Append(scores, sc)
                          /\ fold' = fold + 1
                          /\ UNCHANGED hist
  /\ UNCHANGED <<ctxVars, n_comp, best_score, best_n, result, outcome, via>>
  /\ UNCHANGED recVars

\* the end of CV_score (the mean) and the comparison in SelectorCV.select
CVMean ==
  /\ kind = "CV" /\ pc = "fold" /\ fold > Len(KFoldSplit(Len(sequences)).folds)
  /\ LET score == Mean(scores)
     IN /\ hist' = [hist EXCEPT ![n_comp] = [t |-> "ok", score |-> score]]
        /\ Compare(score, Gt(score, best_score))
  /\ fold' = 0
  /\ UNCHANGED <<ctxVars, X, lengths, scores, result, outcome, via, lastFit, fitMemo>>
  /\ UNCHANGED recVars

\* after the loop: return self.base_model(best_n); reading an unbound best_n
\* raises inside the try block
LoopExit ==
  /\ kind \in {"BIC", "DIC", "CV"} /\ pc = "loop" /\ n_comp > max_n_components
  /\ IF best_n = 0
       THEN /\ pc' = "except"
            /\ UNCHANGED <<result, outcome, via, lastFit, fitMemo>>
       ELSE \E ok \in FitOutcomes(X, lengths, best_n) :
              LET m == base_model(ok, best_n, X, lengths)
              IN /\ fitMemo' = Remember(X, lengths, best_n, ok)
                 /\ lastFit' = [X |-> X, lengths |-> lengths, n |-> best_n]
                 /\ IF m.t = "raise"
                      THEN pc' = "except" /\ UNCHANGED <<result, outcome, via>>
                      ELSE /\ pc' = "done" /\ result' = m
                           /\ outcome' = "returned" /\ via' = "search"
  /\ UNCHANGED <<ctxVars, X, lengths, n_comp, best_score, best_n, fold, scores, hist>>
  /\ UNCHANGED recVars

\* an except clause that lets the exception go on to the caller
Except_reraise ==
  /\ pc = "except"
  /\ result' = None /\ outcome' = "raised"
  /\ via' = "fallback"
  /\ pc' = "done"
  /\ UNCHANGED <<ctxVars, X, lengths, n_comp, best_score, best_n, fold, scores, hist,
                 lastFit, fitMemo>>
  /\ UNCHANGED recVars

\* the except clause of select: return self.base_model(self.n_constant)
Except ==
  /\ pc = "except"
  /\ \E ok \in FitOutcomes(X, lengths, n_constant) :
       LET m == base_model(ok, n_constant, X, lengths)
       IN /\ fitMemo' = Remember(X, lengths, n_constant, ok)
          /\ lastFit' = [X |-> X, lengths |-> lengths, n |-> n_constant]
          /\ IF m.t = "raise"
               THEN result' = None /\ outcome' = "raised"
               ELSE result' = m /\ outcome' = "returned"
  /\ via' = "fallback"
  /\ pc' = "done"
  /\ UNCHANGED <<ctxVars, X, lengths, n_comp, best_score, best_n, fold, scores, hist>>
  /\ UNCHANGED recVars

\* recognize() is not running in the selector specification
InitRecIdle ==
  /\ models = <<>> /\ test_set = <<>>
  /\ rpc = "off" /\ item = 0 /\ widx = 0
  /\ row_best_score = NegInf /\ best_guess = "" /\ probdict = <<>>
  /\ probabilities = <<>> /\ guesses = <<>>
  /\ rawrow = <<>> /\ rawlog = <<>>

Init == InitSelector /\ InitRecIdle

Next ==
  \/ SelectConstant
  \/ SelectEnter
  \/ BICIter
  \/ DICIter
  \/ CVSplit
  \/ CVFold
  \/ CVMean
  \/ LoopExit
  \/ Except

Spec == Init /\ [][Next]_vars

\* ------------------------------------------------------------ recognize()
WordName(k) == "W" \o ToString(k - 1)

\* no selector exists in the recognizer specification
InitSelIdle ==
  /\ kind = "none" /\ sequences = <<>> /\ X = <<>> /\ lengths = <<>> /\ hwords = <<>>
  /\ n_constant = DefaultNConstant /\ min_n_components = DefaultMinN
  /\ max_n_components = DefaultMinN /\ random_state = DefaultRandomState
  /\ pc = "off" /\ n_comp = 0 /\ best_score = NaN /\ best_n = 0
  /\ fold = 0 /\ scores = <<>> /\ result = None /\ outcome = "none" /\ via = "none"
  /\ lastFit = NoFit /\ fitMemo = {} /\ hist = <<>>

\* the arguments of recognize and its first lines: models is a dict in
\* iteration order whose values are what select() returned (a model or None),
\* test_set.get_all_Xlengths() is a dict keyed by the item number
InitRecognize ==
  /\ \E nw \in 0..MaxWords : \E fitted \in [1..nw -> BOOLEAN] :
       models = [k \in 1..nw |->
                  [word |-> WordName(k),
                   model |-> IF fitted[k] THEN [t |-> "model", n |-> DefaultNConstant,
                                                X |-> <<>>, lengths |-> <<>>]
                             ELSE None]]
  /\ \E ni \in 0..MaxItems : test_set = [i \in 1..ni |-> [X |-> <<<<i, 1>>>>, lengths |-> <<1>>]]
  /\ rpc = "items" /\ item = 1 /\ widx = 0
  /\ row_best_score = NegInf /\ best_guess = "" /\ probdict = <<>>
  /\ probabilities = <<>> /\ guesses = <<>>
  /\ rawrow = <<>> /\ rawlog = <<>>

\* start of the body of the outer loop, for test item number item
RecRowStart ==
  /\ rpc = "items" /\ item <= Len(test_set)
  /\ row_best_score' = NegInf
  /\ probdict' = <<>>
  /\ best_guess' = ""
  /\ widx' = 1
  /\ rpc' = "words"
  /\ rawrow' = <<>>
  /\ UNCHANGED <<models, test_set, item, probabilities, guesses, rawlog>>
  /\ UNCHANGED selVars

\* the except clause of the inner loop with the substitution removed
CaughtScore_propagate(sc) == sc

\* try: score = model.score(X, lengths) except: score = float("-inf")
CaughtScore(sc) == IF sc.t = "raise" THEN NegInf ELSE sc

\* the dict assignment probdict[trained_word] = score
DictSet(d, k, v) == [w \in DOMAIN d \cup {k} |-> IF w = k THEN v ELSE d[w]]

\* strict comparison of the inner loop
IsBetter(score, best) == Gt(score, best)

\* body of the inner loop, for the model number widx of models.items()
RecScore ==
  /\ rpc = "words" /\ widx <= Len(models)
  /\ \E s \in ScoreOutcomes :
       LET trained_word == models[widx].word
           raw == Score(models[widx].model, s)
           score == CaughtScore(raw)
       IN /\ rawrow' = DictSet(rawrow, trained_word, raw)
          /\ IF score.t = "raise"
               THEN /\ rpc' = "raised"
                    /\ UNCHANGED <<probdict, row_best_score, best_guess, widx>>
               ELSE /\ probdict' = DictSet(probdict, trained_word, score)
                    /\ IF IsBetter(score, row_best_score)
                         THEN row_best_score' = score /\ best_guess' = trained_word
                         ELSE UNCHANGED <<row_best_score, best_guess>>
                    /\ widx' = widx + 1
                    /\ UNCHANGED rpc
  /\ UNCHANGED <<models, test_set, item, probabilities, guesses, rawlog>>
  /\ UNCHANGED selVars

\* end of the body of the outer loop: the two appends
RecRowEnd ==
  /\ rpc = "words" /\ widx > Len(models)
  /\ probabilities' = Append(probabilities, probdict)
  /\ guesses' = Append(guesses, best_guess)
  /\ item' = item + 1
  /\ rpc' = "items"
  /\ rawlog' = Append(rawlog, [item |-> item, raw |-> rawrow])
  /\ UNCHANGED <<models, test_set, widx, row_best_score, best_guess, probdict, rawrow>>
  /\ UNCHANGED selVars

\* return probabilities, guesses
RecReturn ==
  /\ rpc = "items" /\ item > Len(test_set)
  /\ rpc' = "returned"
  /\ UNCHANGED <<models, test_set, item, widx, row_best_score, best_guess, probdict,
                 probabilities, guesses, rawrow, rawlog>>
  /\ UNCHANGED selVars

InitRec == InitSelIdle /\ InitRecognize

NextRec ==
  \/ RecRowStart
  \/ RecScore
  \/ RecRowEnd
  \/ RecReturn

SpecRec == InitRec /\ [][NextRec]_vars

\* ================================================================ claims
Adaptive == kind \in {"BIC", "DIC", "CV"}
Done == pc = "done"
FullX == FullIndex(sequences).X
FullLengths == FullIndex(sequences).lengths
ModelWords == {models[k].word : k \in 1..Len(models)}

\* the order of the extended reals; nan is not ordered with anything
StrictlyLess(a, b) ==
  /\ a.t # "nan" /\ b.t # "nan"
  /\ \/ a.t = "-inf" /\ b.t # "-inf"
     \/ b.t = "inf" /\ a.t # "inf"
     \/ a.t = "num" /\ b.t = "num" /\ a.num * b.den < b.num * a.den

\* is score a strictly better than score b for this selector
Better(a, b) == IF kind = "BIC" THEN StrictlyLess(a, b) ELSE StrictlyLess(b, a)

Succeeded == {n \in Candidates : hist[n].t = "ok"}
Tried == {n \in Candidates : hist[n].t # "untried"}

\* the candidates no succeeded candidate beats
BestOf(S) == {n \in S : \A m \in S : ~Better(hist[m].score, hist[n].score)}
Smallest(S) == CHOOSE n \in S : \A m \in S : n <= m

\* C1: select() of every selector never raises; what it returns is a fitted
\* model with a state count of the range, or the result of the fit with
\* n_constant states (which may be None).
C1_SelectNeverRaises ==
  /\ outcome # "raised"
  /\ Done =>
       /\ outcome = "returned"
       /\ \/ via = "search" /\ result.t = "model" /\ result.n \in Candidates
          \/ /\ via \in {"fallback", "constant"}
             /\ lastFit.n = n_constant
             /\ result.t = "model" => result.n = n_constant

C1_Witness ==
  /\ Done /\ kind = "BIC" /\ via = "fallback" /\ result = None
  /\ \E n \in Candidates : hist[n].t = "scorefail"

\* C2: SelectorBIC.select() skips a candidate that fails and returns a model
\* whose state count has the lowest BIC score among the candidates that
\* succeeded, whenever at least one succeeded.
C2_BICMinAmongSucceeded ==
  (Done /\ kind = "BIC" /\ Succeeded # {}) =>
     /\ via = "search"
     /\ result.t = "model"
     /\ result.n \in BestOf(Succeeded)

\* C3: when every candidate of the range fails to fit, SelectorBIC, DIC and
\* CV return what SelectorConstant.select() returns: one fit with n_constant
\* states on the word's full observation matrix and lengths.
C3_AllFailEqualsConstant ==
  (Done /\ Adaptive /\ Tried # {} /\ \A n \in Tried : hist[n].t = "fitfail") =>
     /\ via = "fallback"
     /\ lastFit = [X |-> FullX, lengths |-> FullLengths, n |-> n_constant]

\* C4: when SelectorCV.select() completes its search, the returned model is
\* fit with the chosen state count on the word's full observation matrix and
\* lengths.
C4_CVRefitOnFull ==
  (Done /\ kind = "CV" /\ via = "search") =>
     /\ result.t = "model"
     /\ result.n = best_n
     /\ result.X = FullX /\ result.lengths = FullLengths

\* C5: recognize never raises out of a scoring failure; it returns one row
\* and one guess per test item, in test-set order, every row has one entry
\* per word of models, and a failed score is recorded as -inf.
C5_OneRowPerItem ==
  /\ rpc # "raised"
  /\ Len(probabilities) = Len(guesses)
  /\ rpc \in {"items", "returned"} => Len(probabilities) = item - 1
  /\ rpc = "returned" =>
       /\ Len(probabilities) = Len(test_set)
       /\ \A i \in 1..Len(test_set) :
            /\ rawlog[i].item = i
            /\ DOMAIN probabilities[i] = ModelWords
            /\ \A w \in ModelWords :
                 probabilities[i][w] =
                   IF rawlog[i].raw[w].t = "raise" THEN NegInf ELSE rawlog[i].raw[w]

C5_Witness ==
  /\ rpc = "returned" /\ Len(test_set) = MaxItems /\ Len(models) >= 2
  /\ \E i \in 1..Len(test_set) :
       /\ rawlog[i].raw[models[1].word].t = "raise"
       /\ rawlog[i].raw[models[2].word].t = "num"

\* position of a word in the iteration order of models
WordPos(w) == CHOOSE k \in 1..Len(models) : models[k].word = w

\* C6: every guess is a word of models with the maximal score of its row,
\* the first such word in iteration order, also in rows where every score
\* is -inf.
C6_GuessIsFirstArgmax ==
  (rpc = "returned" /\ Len(models) > 0) =>
     \A i \in 1..Len(guesses) :
        /\ guesses[i] \in ModelWords
        /\ \A w \in ModelWords :
             /\ ~StrictlyLess(probabilities[i][guesses[i]], probabilities[i][w])
             /\ probabilities[i][w] = probabilities[i][guesses[i]]
                  => WordPos(guesses[i]) <= WordPos(w)

\* C7: SelectorCV.select() on a word with one training sequence does not
\* raise: the split fails and the result is the fit with n_constant states on
\* the word's full observation matrix and lengths.
C7_CVOneSequence ==
  (kind = "CV" /\ Len(sequences) = 1) =>
     /\ outcome # "raised"
     /\ X = FullX /\ lengths = FullLengths
     /\ \A n \in Candidates : hist[n].t \in {"untried", "splitfail"}
     /\ Done =>
          /\ outcome = "returned" /\ via = "fallback"
          /\ lastFit = [X |-> FullX, lengths |-> FullLengths, n |-> n_constant]
          /\ result \in {None, [t |-> "model", n |-> n_constant,
                                X |-> FullX, lengths |-> FullLengths]}

C7_Witness ==
  /\ kind = "CV" /\ Len(sequences) = 1 /\ Done
  /\ hist[min_n_components].t = "splitfail"
  /\ result.t = "model"

\* C8: SelectorDIC.select() on a vocabulary with no other word does not
\* raise; it returns a model fit at a state count of the range or the
\* n_constant fallback fit.
C8_DICSingleWord ==
  (kind = "DIC" /\ Len(hwords) = 1) =>
     /\ outcome # "raised"
     /\ Done =>
          /\ outcome = "returned"
          /\ \/ via = "search" /\ result.t = "model" /\ result.n \in Candidates
             \/ /\ via = "fallback" /\ lastFit.n = n_constant
                /\ result.t = "model" => result.n = n_constant

C8_Witness ==
  /\ kind = "DIC" /\ Len(hwords) = 1 /\ Done
  /\ Candidates # {} /\ \A n \in Candidates : hist[n] = [t |-> "ok", score |-> NaN]

AllSucceeded == Candidates # {} /\ Succeeded = Candidates

\* C9 as stated: in a search where no candidate fails, the returned model
\* has the smallest state count attaining the best score.
C9_FirstBestWins ==
  (Done /\ Adaptive /\ AllSucceeded) =>
     /\ via = "search"
     /\ result.t = "model"
     /\ result.n = Smallest(BestOf(Candidates))

\* C9 amended: in a search where no candidate fails and the scores are
\* numbers, the returned model has the smallest state count attaining the
\* best score; when every score is nan (SelectorDIC with no other word)
\* the running best is never set and the n_constant fallback is returned.
C9_FirstBestWinsAmended ==
  (Done /\ Adaptive /\ AllSucceeded) =>
     IF \A n \in Candidates : hist[n].score.t = "nan"
       THEN via = "fallback" /\ lastFit.n = n_constant
       ELSE /\ \A n \in Candidates : hist[n].score.t = "num"
            /\ via = "search"
            /\ result.t = "model"
            /\ result.n = Smallest(BestOf(Candidates))

C9_Witness ==
  /\ Done /\ Adaptive /\ AllSucceeded /\ via = "search"
  /\ \E n \in Candidates : n > result.n /\ hist[n].score.t = "num"
        /\ ~Better(hist[n].score, hist[result.n].score)
        /\ ~Better(hist[result.n].score, hist[n].score)

\* C10: the selection context is read-only: at every point of select() and
\* after it, X and lengths are the word's full concatenated index.
C10_ContextReadOnly ==
  kind \in Kinds => X = FullX /\ lengths = FullLengths

====
